---- MODULE Spec2Model ----
(***************************************************************************)
(* Word-frequency chart (E17331Project2.c): a trie over the 36 symbols     *)
(* a-z, 0-9 that deduplicates tokens, an array-based binary max-heap keyed *)
(* by (frequency desc, occurredAt asc) with back-pointers (heapId) from    *)
(* the trie leaves, and main's ingestion / extraction loops.               *)
(*                                                                         *)
(* Characters are their ASCII codes, strings are sequences of codes,       *)
(* pointers to trie nodes are indices into the arena `nodes` (the order of *)
(* the malloc calls of createNewNode).                                     *)
(***************************************************************************)
EXTENDS Integers, Sequences, FiniteSets, TLC

\* ------------------------------------------------------------------------
\* Program constants
\* ------------------------------------------------------------------------
CHAR_COUNT == 36

\* The initial value of the global `capacity`.
InitialCapacity == 1

\* The default of main's local `length`.
DefaultLength == 10

\* The null pointer.
NULL == 0

\* heapId of a node that has no heap entry.
NoHeapId == -1

\* ------------------------------------------------------------------------
\* Bounds of the model
\* ------------------------------------------------------------------------
\* Tokens read from the input files in one run.
MaxIngest == 5

\* Largest value given to the -l option.
MaxLengthArg == 2

\* Calls of extractMax made directly on the index (SpecCore).
MaxCoreExtract == 3

\* ------------------------------------------------------------------------
\* Values that stand for indeterminate memory
\* ------------------------------------------------------------------------
\* A pointer whose value is not the address of any object (dereferencing it
\* faults).
WILD == -1

\* An indeterminate int read from memory the program never wrote.
GarbageInt == 7

\* ------------------------------------------------------------------------
\* Characters and words
\* ------------------------------------------------------------------------
\* (char) arithmetic: the result of c -= k is stored back into a signed
\* 8-bit char.
ToChar(x) == ((x + 128) % 256) - 128

isalpha(c) == (c >= 65 /\ c <= 90) \/ (c >= 97 /\ c <= 122)

isdigit(c) == c >= 48 /\ c <= 57

isalnum(c) == isalpha(c) \/ isdigit(c)

tolower(c) == IF c >= 65 /\ c <= 90 THEN c + 32 ELSE c

\* preproccess: keeps the alphanumeric characters, lowercased, in order.
RECURSIVE preproccess(_)
preproccess(word) ==
    IF word = <<>> THEN <<>>
    ELSE LET c == Head(word) IN
         IF isalnum(c)
         THEN (IF isalpha(c) THEN <<tolower(c)>> ELSE <<c>>) \o preproccess(Tail(word))
         ELSE preproccess(Tail(word))

\* The child slot insert computes for character c (lines 188-192).
ChildIndex(c) == IF c >= 97 THEN ToChar(c - 97) ELSE ToChar(c - (48 - 26))

\* ------------------------------------------------------------------------
\* Trie nodes
\* ------------------------------------------------------------------------
\* The children of a node are held as a function from the slots that hold a
\* non-null pointer to that pointer: a slot of 0 .. CHAR_COUNT-1 outside its
\* domain holds NULL.
NoChildren == [i \in {} |-> NULL]

\* createNewNode: the contents of a freshly created node.
NewNode ==
    [isLeaf |-> FALSE, frequency |-> 0, heapId |-> NoHeapId, children |-> NoChildren]

\* ------------------------------------------------------------------------
\* The heap
\* ------------------------------------------------------------------------
\* A slot of the backing array that was never written.
Uninit == [word |-> <<>>, root |-> NULL, frequency |-> 0, occurredAt |-> -1, init |-> FALSE]

Entry(w, n, f, o) == [word |-> w, root |-> n, frequency |-> f, occurredAt |-> o, init |-> TRUE]

\* (i - 1) / 2 in C: integer division truncates toward zero.
\* parent as the slot before i: sift-up along the array, not up the tree.
parentLinear(i) == i - 1

parent(i) == IF i - 1 >= 0 THEN (i - 1) \div 2 ELSE -((1 - i) \div 2)

leftChild(i) == 2 * i + 1

rightChild(i) == 2 * i + 2

\* swap: exchanges two slots of the array.
swap(heap, a, b) == [heap EXCEPT ![a] = heap[b], ![b] = heap[a]]

\* siftUp with the tie-break on occurredAt left out.
ParentBelowNoTie(heap, i) ==
    heap[parent(i)].frequency < heap[i].frequency

\* The loop condition of siftUp: the parent ranks below the entry at i.
ParentBelow(heap, i) ==
    \/ heap[parent(i)].frequency < heap[i].frequency
    \/ /\ heap[parent(i)].frequency = heap[i].frequency
       /\ heap[parent(i)].occurredAt > heap[i].occurredAt

\* siftUp writing the heapId of the entry that moves up only.
RECURSIVE siftUpOneId(_, _)
siftUpOneId(S, i) ==
    IF i > 0 /\ ParentBelow(S.frequencyHeap, i)
    THEN LET h == S.frequencyHeap
             cn == h[i].root
         IN siftUpOneId([S EXCEPT !.nodes = [S.nodes EXCEPT ![cn].heapId = parent(i)],
                                  !.frequencyHeap = swap(h, parent(i), i),
                                  !.swaps = @ + 1],
                        parent(i))
    ELSE S

\* siftUp on the state S (a record of the globals and the trie arena); the
\* field swaps of S counts the calls of swap.
RECURSIVE siftUp(_, _)
siftUp(S, i) ==
    IF i > 0 /\ ParentBelow(S.frequencyHeap, i)
    THEN LET h == S.frequencyHeap
             pn == h[parent(i)].root
             cn == h[i].root
             n1 == [S.nodes EXCEPT ![pn].heapId = i]
             n2 == [n1 EXCEPT ![cn].heapId = parent(i)]
         IN siftUp([S EXCEPT !.nodes = n2,
                             !.frequencyHeap = swap(h, parent(i), i),
                             !.swaps = @ + 1],
                   parent(i))
    ELSE S

\* siftDown's comparison with the tie-break on occurredAt left out.
ChildAboveNoTie(heap, c, m) ==
    heap[c].frequency > heap[m].frequency

\* The comparison of siftDown: the entry at slot c ranks above the one at m.
ChildAbove(heap, c, m) ==
    \/ heap[c].frequency > heap[m].frequency
    \/ /\ heap[c].frequency = heap[m].frequency
       /\ heap[c].occurredAt < heap[m].occurredAt

\* siftDown that stops as soon as the right child is not an entry of the
\* heap, a left child on its own being left unexamined.
RECURSIVE siftDownBothChildren(_, _)
siftDownBothChildren(S, i) ==
    LET h == S.frequencyHeap
        left == leftChild(i)
        right == rightChild(i)
    IN IF left >= S.size \/ right >= S.size THEN S
       ELSE LET m1 == IF ChildAbove(h, left, i) THEN left ELSE i
                maxIndex == IF ChildAbove(h, right, m1) THEN right ELSE m1
            IN IF i # maxIndex
               THEN siftDownBothChildren([S EXCEPT !.frequencyHeap = swap(h, i, maxIndex),
                                                   !.swaps = @ + 1],
                                         maxIndex)
               ELSE S

\* siftDown; the slots it reads lie in 0 .. size, all inside the allocation.
RECURSIVE siftDown(_, _)
siftDown(S, i) ==
    LET h == S.frequencyHeap
        left == leftChild(i)
        right == rightChild(i)
    IN IF left > S.size \/ right > S.size THEN S
       ELSE LET m1 == IF ChildAbove(h, left, i) THEN left ELSE i
                maxIndex == IF ChildAbove(h, right, m1) THEN right ELSE m1
            IN IF i # maxIndex
               THEN siftDown([S EXCEPT !.frequencyHeap = swap(h, i, maxIndex),
                                       !.swaps = @ + 1],
                             maxIndex)
               ELSE S

\* ------------------------------------------------------------------------
\* Insertion
\* ------------------------------------------------------------------------
\* realloc to `cap` slots: the old slots are kept, the new ones are unwritten.
Realloc(heap, cap) == [i \in 0 .. cap - 1 |-> IF i \in DOMAIN heap THEN heap[i] ELSE Uninit]

\* insertToHeap that leaves the entry's frequency alone when the token is
\* already in the heap.
insertToHeapNoIncrement(S, word, n) ==
    LET S1 == [S EXCEPT !.totalWords = @ + 1]
        hid == S1.nodes[n].heapId
    IN IF hid # NoHeapId
       THEN siftUp(S1, hid)
       ELSE LET cap == IF S1.size = S1.capacity THEN 2 * S1.capacity ELSE S1.capacity
                heap == Realloc(S1.frequencyHeap, cap)
                e == Entry(word, n, S1.nodes[n].frequency, S1.uniqueOccurrences)
                S2 == [S1 EXCEPT !.capacity = cap,
                                 !.frequencyHeap = [heap EXCEPT ![S1.size] = e],
                                 !.nodes[n].heapId = S1.size,
                                 !.uniqueOccurrences = @ + 1,
                                 !.size = @ + 1]
            IN siftUp(S2, S1.size)

\* insertToHeap that counts a token in totalWords only when it is new.
insertToHeapCountNew(S, word, n) ==
    LET hid == S.nodes[n].heapId
    IN IF hid # NoHeapId
       THEN siftUp([S EXCEPT !.frequencyHeap[hid].frequency = @ + 1], hid)
       ELSE LET S1 == [S EXCEPT !.totalWords = @ + 1]
                cap == IF S1.size = S1.capacity THEN 2 * S1.capacity ELSE S1.capacity
                heap == Realloc(S1.frequencyHeap, cap)
                e == Entry(word, n, S1.nodes[n].frequency, S1.uniqueOccurrences)
                S2 == [S1 EXCEPT !.capacity = cap,
                                 !.frequencyHeap = [heap EXCEPT ![S1.size] = e],
                                 !.nodes[n].heapId = S1.size,
                                 !.uniqueOccurrences = @ + 1,
                                 !.size = @ + 1]
            IN siftUp(S2, S1.size)

\* insertToHeap that gives a token a new occurredAt each time it is seen.
insertToHeapReassignRank(S, word, n) ==
    LET S1 == [S EXCEPT !.totalWords = @ + 1]
        hid == S1.nodes[n].heapId
    IN IF hid # NoHeapId
       THEN siftUp([S1 EXCEPT !.frequencyHeap[hid].frequency = @ + 1,
                              !.frequencyHeap[hid].occurredAt = S1.uniqueOccurrences],
                   hid)
       ELSE LET cap == IF S1.size = S1.capacity THEN 2 * S1.capacity ELSE S1.capacity
                heap == Realloc(S1.frequencyHeap, cap)
                e == Entry(word, n, S1.nodes[n].frequency, S1.uniqueOccurrences)
                S2 == [S1 EXCEPT !.capacity = cap,
                                 !.frequencyHeap = [heap EXCEPT ![S1.size] = e],
                                 !.nodes[n].heapId = S1.size,
                                 !.uniqueOccurrences = @ + 1,
                                 !.size = @ + 1]
            IN siftUp(S2, S1.size)

\* insertToHeap(word, root) with *root = n.
insertToHeap(S, word, n) ==
    LET S1 == [S EXCEPT !.totalWords = @ + 1]
        hid == S1.nodes[n].heapId
    IN IF hid # NoHeapId
       THEN IF hid \notin DOMAIN S1.frequencyHeap
            THEN [S1 EXCEPT !.fault = "segv"]
            ELSE siftUp([S1 EXCEPT !.frequencyHeap[hid].frequency = @ + 1], hid)
       ELSE LET cap == IF S1.size = S1.capacity THEN 2 * S1.capacity ELSE S1.capacity
                heap == Realloc(S1.frequencyHeap, cap)
                e == Entry(word, n, S1.nodes[n].frequency, S1.uniqueOccurrences)
            IN IF S1.size \notin DOMAIN heap
               THEN [S1 EXCEPT !.fault = "segv"]
               ELSE LET S2 == [S1 EXCEPT !.capacity = cap,
                                         !.frequencyHeap = [heap EXCEPT ![S1.size] = e],
                                         !.nodes[n].heapId = S1.size,
                                         !.uniqueOccurrences = @ + 1,
                                         !.size = @ + 1]
                    IN siftUp(S2, S1.size)

\* main's local `root`: the node main allocates at line 221, the first of the arena.
Root == 1

\* The place of a node pointer: main's `root` variable, or child slot i of node p.
RootSlot == <<NULL, 0>>

\* The pointer stored at a slot. A child index outside 0 .. CHAR_COUNT-1
\* addresses memory past the node: what is read there is g, unless this run
\* stored a pointer there before.
LoadPtr(S, slot, g) ==
    IF slot = RootSlot THEN Root
    ELSE IF slot[2] \in DOMAIN S.nodes[slot[1]].children
         THEN S.nodes[slot[1]].children[slot[2]]
         ELSE IF slot[2] \in 0 .. CHAR_COUNT - 1 THEN NULL ELSE g

\* *root = createNewNode() for the pointer at `slot`.
StoreNewNode(S, slot) ==
    LET id == Len(S.nodes) + 1
        linked == IF slot = RootSlot THEN S.nodes
                  ELSE [S.nodes EXCEPT ![slot[1]].children =
                            [i \in (DOMAIN @) \cup {slot[2]} |->
                                IF i = slot[2] THEN id ELSE @[i]]]
    IN [S EXCEPT !.nodes = Append(linked, NewNode)]

\* insert that leaves the frequency of a node that is already a leaf alone.
RECURSIVE insertNoTrieIncrement(_, _, _, _, _)
insertNoTrieIncrement(S, slot, word, tempWord, g) ==
    LET p0 == LoadPtr(S, slot, g) IN
    IF p0 = WILD THEN [S EXCEPT !.fault = "segv"]
    ELSE LET S1 == IF p0 = NULL THEN StoreNewNode(S, slot) ELSE S
             p == IF p0 = NULL THEN Len(S.nodes) + 1 ELSE p0
         IN IF word # <<>>
            THEN insertNoTrieIncrement(S1, <<p, ChildIndex(Head(word))>>, Tail(word),
                                       tempWord, g)
            ELSE LET S2 == IF S1.nodes[p].isLeaf
                           THEN S1
                           ELSE [S1 EXCEPT !.nodes[p].isLeaf = TRUE,
                                           !.nodes[p].frequency = 1]
                 IN insertToHeap(S2, tempWord, p)

\* insert(root, word, tempWord), root being the address `slot`.
RECURSIVE insert(_, _, _, _, _)
insert(S, slot, word, tempWord, g) ==
    LET p0 == LoadPtr(S, slot, g) IN
    IF p0 = WILD THEN [S EXCEPT !.fault = "segv"]
    ELSE LET S1 == IF p0 = NULL THEN StoreNewNode(S, slot) ELSE S
             p == IF p0 = NULL THEN Len(S.nodes) + 1 ELSE p0
         IN IF word # <<>>
            THEN insert(S1, <<p, ChildIndex(Head(word))>>, Tail(word), tempWord, g)
            ELSE LET S2 == IF S1.nodes[p].isLeaf
                           THEN [S1 EXCEPT !.nodes[p].frequency = @ + 1]
                           ELSE [S1 EXCEPT !.nodes[p].isLeaf = TRUE,
                                           !.nodes[p].frequency = 1]
                 IN insertToHeap(S2, tempWord, p)

\* ------------------------------------------------------------------------
\* Extraction
\* ------------------------------------------------------------------------
\* frequencyHeap[i] as a read: a slot never written, or an index outside the
\* allocation, yields the indeterminate entry g.
Load(heap, i, g) == IF i \in DOMAIN heap /\ heap[i].init THEN heap[i] ELSE g

\* extractMax with size-- in place of --size: slot 0 is filled from the slot
\* past the last entry.
extractMaxPostDecrement(S, g) ==
    LET result == Load(S.frequencyHeap, 0, g)
        S1 == [S EXCEPT !.size = @ - 1]
        S2 == [S1 EXCEPT !.frequencyHeap[0] = Load(S.frequencyHeap, S.size, g)]
    IN [S |-> siftDown(S2, 0), result |-> result]

\* extractMax: the new state and the entry returned.
extractMax(S, g) ==
    LET result == Load(S.frequencyHeap, 0, g)
        S1 == [S EXCEPT !.size = @ - 1]
        S2 == [S1 EXCEPT !.frequencyHeap[0] = Load(S.frequencyHeap, S1.size, g)]
    IN [S |-> siftDown(S2, 0), result |-> result]

\* strlen of a heap entry's word; the word pointer of an indeterminate entry
\* may address nothing.
WildWord == <<WILD>>

strlen(word) == Len(word)

\* ------------------------------------------------------------------------
\* Inputs
\* ------------------------------------------------------------------------
\* Words as fscanf delivers them: "a", "b", "ab", "0", "z", "A", "-".
RawWords == {<<97>>, <<98>>, <<97, 98>>, <<48>>, <<122>>, <<65>>, <<45>>}

\* Tokens handed to insert directly: valid ones, the empty one, and ones
\* with a character outside [a-z0-9]: "{", ":", "/".
CoreTokens == {<<97>>, <<48>>, <<122>>, <<>>, <<123>>, <<58>>, <<47>>}

\* Values of atoi(argv[i]) for the -l option.
LengthArgs == 0 .. MaxLengthArg

\* What a read outside the written part of the heap array can deliver: an
\* entry whose word pointer addresses nothing, or one whose bytes happen to
\* look like an entry.
GarbageEntries ==
    {[word |-> WildWord, root |-> WILD, frequency |-> GarbageInt,
      occurredAt |-> GarbageInt, init |-> TRUE],
     [word |-> <<>>, root |-> NULL, frequency |-> 0, occurredAt |-> 0, init |-> TRUE]}

\* What a read of a pointer outside a node can deliver.
GarbagePointers == {NULL, WILD}

\* What the node main allocates with malloc (and never initialises) can hold:
\* the contents createNewNode would have written, all-zero bytes, child
\* pointers that address nothing, child pointers that address the node itself.
RootMemory ==
    {NewNode,
     [isLeaf |-> FALSE, frequency |-> 0, heapId |-> 0, children |-> NoChildren],
     [isLeaf |-> TRUE, frequency |-> GarbageInt, heapId |-> NoHeapId,
      children |-> [i \in 0 .. CHAR_COUNT - 1 |-> WILD]],
     [isLeaf |-> TRUE, frequency |-> GarbageInt, heapId |-> NoHeapId,
      children |-> [i \in 0 .. CHAR_COUNT - 1 |-> Root]]}

\* ------------------------------------------------------------------------
\* State
\* ------------------------------------------------------------------------
VARIABLES
    nodes,              \* the trie nodes, in allocation order; nodes[Root] is the root
    frequencyHeap,      \* the backing array, indexed 0 .. capacity-1
    capacity,
    size,
    totalWords,
    uniqueOccurrences,
    length,             \* main: the number of entries to chart
    words,              \* main: the entries extracted so far (words[0 .. i-1])
    maxWordLength,      \* main
    pc,                 \* where the run is: "args", "extract", "done", "usage",
                        \* "crashed"; "core", "coreExtract" when the index is
                        \* driven directly
    firstSeen,          \* history: the distinct tokens inserted, by first insert
    count,              \* history: how often each token was inserted
    twin                \* a second run on the same inputs, started from the
                        \* memory contents createNewNode writes

vars == <<nodes, frequencyHeap, capacity, size, totalWords, uniqueOccurrences,
          length, words, maxWordLength, pc, firstSeen, count, twin>>

\* The globals and the trie as one record, the form the operators take.
Cur == [nodes |-> nodes, frequencyHeap |-> frequencyHeap, capacity |-> capacity,
        size |-> size, totalWords |-> totalWords,
        uniqueOccurrences |-> uniqueOccurrences, fault |-> "none", swaps |-> 0]

Install(S) ==
    /\ nodes' = S.nodes
    /\ frequencyHeap' = S.frequencyHeap
    /\ capacity' = S.capacity
    /\ size' = S.size
    /\ totalWords' = S.totalWords
    /\ uniqueOccurrences' = S.uniqueOccurrences

\* The state after main's lines 220-222 with `mem` in the root node.
Fresh(mem) ==
    [nodes |-> <<mem>>, frequencyHeap |-> [i \in 0 .. InitialCapacity - 1 |-> Uninit],
     capacity |-> InitialCapacity, size |-> 0, totalWords |-> 0,
     uniqueOccurrences |-> 0, fault |-> "none", swaps |-> 0]

TwinOf(S) == [S |-> S, words |-> <<>>]

\* The state an operation leaves, its count of swaps cleared for the next one.
Settled(S) == [S EXCEPT !.swaps = 0]

InitWith(mem, p) ==
    /\ nodes = Fresh(mem).nodes
    /\ frequencyHeap = Fresh(mem).frequencyHeap
    /\ capacity = InitialCapacity
    /\ size = 0
    /\ totalWords = 0
    /\ uniqueOccurrences = 0
    /\ length = DefaultLength
    /\ words = <<>>
    /\ maxWordLength = 0
    /\ pc = p
    /\ firstSeen = <<>>
    /\ count = <<>>
    /\ twin = TwinOf(Fresh(NewNode))

\* main after line 222: the root node holds whatever malloc returned.
Init == \E mem \in RootMemory : InitWith(mem, "args")

\* The same, the root node's memory holding an empty node.
InitEmpty == InitWith(NewNode, "args")

\* An empty index whose operations the caller invokes itself.
InitCore == InitWith(NewNode, "core")

\* ------------------------------------------------------------------------
\* History
\* ------------------------------------------------------------------------
Seen(w) == \E i \in 1 .. Len(firstSeen) : firstSeen[i] = w

Record(w) ==
    /\ firstSeen' = IF Seen(w) THEN firstSeen ELSE Append(firstSeen, w)
    /\ count' = IF Seen(w) THEN [i \in 1 .. Len(count) |->
                                    IF firstSeen[i] = w THEN count[i] + 1 ELSE count[i]]
                ELSE Append(count, 1)

\* ------------------------------------------------------------------------
\* main
\* ------------------------------------------------------------------------
\* Lines 236-249: the -l option with atoi(argv[i]) = k.
OptLength(k) ==
    /\ pc = "args"
    /\ IF k = 0
       THEN pc' = "usage" /\ length' = k
       ELSE pc' = pc /\ length' = k
    /\ UNCHANGED <<nodes, frequencyHeap, capacity, size, totalWords, uniqueOccurrences,
                   words, maxWordLength, firstSeen, count, twin>>

\* Lines 270-277: one word of an input file.
ReadWord(raw) ==
    /\ pc = "args"
    /\ totalWords < MaxIngest
    /\ LET word == preproccess(raw) IN
       IF strlen(word) # 0
       THEN LET S == insert(Cur, RootSlot, word, word, NULL)
                T == insert(twin.S, RootSlot, word, word, NULL)
            IN /\ Install(S)
               /\ pc' = IF S.fault = "none" THEN pc ELSE "crashed"
               /\ twin' = [twin EXCEPT !.S = Settled(T)]
               /\ IF S.fault = "none" THEN Record(word)
                  ELSE UNCHANGED <<firstSeen, count>>
       ELSE UNCHANGED <<nodes, frequencyHeap, capacity, size, totalWords,
                        uniqueOccurrences, pc, firstSeen, count, twin>>
    /\ UNCHANGED <<length, words, maxWordLength>>

\* Line 289: the arguments are exhausted, the chart's entries are allocated.
BeginExtract ==
    /\ pc = "args"
    /\ pc' = "extract"
    /\ UNCHANGED <<nodes, frequencyHeap, capacity, size, totalWords, uniqueOccurrences,
                   length, words, maxWordLength, firstSeen, count, twin>>

Max(a, b) == IF a > b THEN a ELSE b

\* Lines 290-294: one iteration of the extraction loop.
ExtractStep(g) ==
    /\ pc = "extract"
    /\ Len(words) < length
    /\ LET r == extractMax(Cur, g)
           t == extractMax(twin.S, g)
       IN /\ Install(r.S)
          /\ words' = Append(words, r.result)
          /\ twin' = [S |-> Settled(t.S), words |-> Append(twin.words, t.result)]
          /\ IF r.result.word = WildWord
             THEN pc' = "crashed" /\ maxWordLength' = maxWordLength
             ELSE pc' = pc /\ maxWordLength' = Max(maxWordLength, strlen(r.result.word))
    /\ UNCHANGED <<length, firstSeen, count>>

\* Lines 295-330: the chart is printed from words and totalWords.
Render ==
    /\ pc = "extract"
    /\ ~(Len(words) < length)
    /\ pc' = "done"
    /\ UNCHANGED <<nodes, frequencyHeap, capacity, size, totalWords, uniqueOccurrences,
                   length, words, maxWordLength, firstSeen, count, twin>>

Next ==
    \/ \E k \in LengthArgs : OptLength(k)
    \/ \E raw \in RawWords : ReadWord(raw)
    \/ BeginExtract
    \/ \E g \in GarbageEntries : ExtractStep(g)
    \/ Render

\* The program as main runs it.
Spec == Init /\ [][Next]_vars

\* ------------------------------------------------------------------------
\* The index driven directly
\* ------------------------------------------------------------------------
\* insert(&root, w, w) on any string w; g is what a read of a child slot
\* outside the node delivers.
CoreInsert(w, g) ==
    /\ pc = "core"
    /\ totalWords < MaxIngest
    /\ LET S == insert(Cur, RootSlot, w, w, g)
           T == insert(twin.S, RootSlot, w, w, g)
       IN /\ Install(S)
          /\ pc' = IF S.fault = "none" THEN pc ELSE "crashed"
          /\ twin' = [twin EXCEPT !.S = Settled(T)]
          /\ IF S.fault = "none" THEN Record(w) ELSE UNCHANGED <<firstSeen, count>>
    /\ UNCHANGED <<length, words, maxWordLength>>

\* extractMax(), the entry returned appended to words; no insert follows an
\* extraction.
CoreExtractMax(g) ==
    /\ pc \in {"core", "coreExtract"}
    /\ Len(words) < MaxCoreExtract
    /\ LET r == extractMax(Cur, g)
           t == extractMax(twin.S, g)
       IN /\ Install(r.S)
          /\ words' = Append(words, r.result)
          /\ twin' = [S |-> Settled(t.S), words |-> Append(twin.words, t.result)]
    /\ pc' = "coreExtract"
    /\ UNCHANGED <<length, maxWordLength, firstSeen, count>>

NextCore ==
    \/ \E w \in CoreTokens, g \in GarbagePointers : CoreInsert(w, g)
    \/ \E g \in GarbageEntries : CoreExtractMax(g)

\* insert and extractMax called on an empty index, with any strings.
SpecCore == InitCore /\ [][NextCore]_vars

\* The program as main runs it when the root node's memory holds an empty node.
SpecIndex == InitEmpty /\ [][Next]_vars

\* ------------------------------------------------------------------------
\* Properties
\* ------------------------------------------------------------------------
\* The position of token w among the distinct tokens, by first insert.
FirstOccurrence(w) ==
    IF Seen(w) THEN CHOOSE i \in 1 .. Len(firstSeen) : firstSeen[i] = w
    ELSE Len(firstSeen) + 1

\* Entry a ranks above entry b.
RanksAbove(a, b) ==
    \/ a.frequency > b.frequency
    \/ a.frequency = b.frequency /\ a.occurredAt < b.occurredAt

Extracting == pc \in {"extract", "done"}

\* C1: extracting up to distinct_token_count() entries from an index that was
\* empty before the tokens were ingested yields them in rank order: the
\* frequency never increases from one entry to the next, and of two
\* consecutive entries of equal frequency the one first seen earlier comes
\* first.
C1_ExtractionSorted ==
    (Extracting /\ Len(words) <= Len(firstSeen)) =>
        \A i \in 1 .. Len(words) - 1 :
            \/ words[i].frequency > words[i + 1].frequency
            \/ /\ words[i].frequency = words[i + 1].frequency
               /\ FirstOccurrence(words[i].word) < FirstOccurrence(words[i + 1].word)

\* All distinct tokens were extracted, four or more, with a tie and a strict
\* drop of frequency between neighbours.
C1_Witness ==
    /\ Extracting
    /\ Len(words) = Len(firstSeen)
    /\ Len(words) >= 4
    /\ \E i \in 1 .. Len(words) - 1 : words[i].frequency = words[i + 1].frequency
    /\ \E i \in 1 .. Len(words) - 1 : words[i].frequency > words[i + 1].frequency

\* C2: extracting distinct_token_count() entries returns every distinct
\* ingested token exactly once, with the number of times it was ingested as
\* its frequency.
C2_ExtractionComplete ==
    (Extracting /\ Len(words) = Len(firstSeen)) =>
        \A i \in 1 .. Len(firstSeen) :
            /\ Cardinality({j \in 1 .. Len(words) : words[j].word = firstSeen[i]}) = 1
            /\ \A j \in 1 .. Len(words) :
                   words[j].word = firstSeen[i] => words[j].frequency = count[i]

\* Four distinct tokens, one of them ingested twice, were all extracted.
C2_Witness ==
    /\ Extracting
    /\ Len(words) = Len(firstSeen)
    /\ Len(firstSeen) = 4
    /\ \E i \in 1 .. 4 : count[i] = 2

\* The max-heap property on slots 0 .. size-1.
HeapOrdered ==
    \A i \in 1 .. size - 1 :
        RanksAbove(frequencyHeap[parent(i)], frequencyHeap[i])

\* C3: after every ingest the backing array is a max-heap on slots
\* 0 .. size-1: each entry's parent has a higher frequency, or the same
\* frequency and a smaller first-occurrence rank.
C3_HeapAfterIngest == pc = "args" => HeapOrdered

\* A repeated token was sifted up to the root of a heap of four entries.
C3_Witness ==
    /\ pc = "args"
    /\ size = 4
    /\ frequencyHeap[0].occurredAt = 3
    /\ frequencyHeap[0].frequency = 2

RECURSIVE SumSeq(_)
SumSeq(q) == IF q = <<>> THEN 0 ELSE Head(q) + SumSeq(Tail(q))

\* C4: totalWords is the number of tokens ingested and uniqueOccurrences the
\* number of distinct tokens among them, which during ingestion is also the
\* heap's size.
C4_Counts ==
    /\ totalWords = SumSeq(count)
    /\ uniqueOccurrences = Len(firstSeen)
    /\ pc = "args" => size = Len(firstSeen)

\* Five tokens were ingested, three of them distinct.
C4_Witness ==
    /\ pc = "args"
    /\ SumSeq(count) = 5
    /\ Len(firstSeen) = 3

\* C5: in every reachable state, also after extractMax, the heapId of the
\* trie node of each entry in slots 0 .. size-1 is the slot the entry is in.
C5_BackPointers ==
    \A i \in 0 .. size - 1 :
        frequencyHeap[i].init => nodes[frequencyHeap[i].root].heapId = i

\* C6: a request for more entries than there are distinct tokens is refused
\* before anything is extracted: words, the heap and its size stay as they
\* were when the request was made.
C6_RejectsBeforeExtracting ==
    [][(pc = "extract" /\ length > uniqueOccurrences) =>
           (words' = words /\ frequencyHeap' = frequencyHeap /\ size' = size)]_vars

\* C7: extractMax on an index of size 0 returns no entry, leaves the array
\* and the size alone, and the size is never negative.
C7_EmptyExtractRefused ==
    [][/\ size' >= 0
       /\ (pc = "extract" /\ size = 0) =>
              (words' = words /\ frequencyHeap' = frequencyHeap /\ size' = 0)]_vars

InvalidTokens == {w \in CoreTokens : \E i \in 1 .. Len(w) : ~(isdigit(w[i]) \/ (w[i] >= 97 /\ w[i] <= 122))}

\* C8: inserting a token with a character outside [a-z0-9] leaves the
\* counters, the heap and the trie as they were, and indexes no child slot
\* outside 0 .. 35.
C8_InvalidSymbolRejected ==
    [][\A w \in InvalidTokens, g \in GarbagePointers :
           CoreInsert(w, g) =>
               /\ UNCHANGED <<nodes, frequencyHeap, capacity, size, totalWords,
                              uniqueOccurrences>>
               /\ \A i \in 1 .. Len(w) : ChildIndex(w[i]) \in 0 .. CHAR_COUNT - 1]_vars

\* C9: the entries extracted, up to the number of distinct tokens, are the
\* same (token and frequency, in order) as those of a second run on the same
\* inputs, whatever the memory main's root node was allocated in held.
C9_SameRanking ==
    \A K \in 1 .. Len(twin.words) :
        K <= twin.S.uniqueOccurrences =>
            /\ K <= Len(words)
            /\ words[K].word = twin.words[K].word
            /\ words[K].frequency = twin.words[K].frequency

\* C10: inserting the empty token changes nothing: the counters, the heap and
\* every trie node, the root included, stay as they were.
C10_EmptyTokenIgnored ==
    [][\A g \in GarbagePointers :
           CoreInsert(<<>>, g) =>
               UNCHANGED <<nodes, frequencyHeap, capacity, size, totalWords,
                           uniqueOccurrences>>]_vars

\* C11: a request for 0 entries reports no error and yields an empty
\* result, nothing having been extracted.
C11_ZeroYieldsEmpty ==
    length = 0 => (pc # "usage" /\ words = <<>> /\ size = uniqueOccurrences)

\* The node the path of word w leads to from node n in the trie ns, NULL if
\* the path ends before the word does.
RECURSIVE FindNode(_, _, _)
FindNode(ns, n, w) ==
    IF n \notin 1 .. Len(ns) THEN NULL
    ELSE IF w = <<>> THEN n
    ELSE LET i == ChildIndex(Head(w)) IN
         IF i \in DOMAIN ns[n].children
         THEN FindNode(ns, ns[n].children[i], Tail(w))
         ELSE NULL

TerminalNode(ns, w) == FindNode(ns, Root, w)

\* The slots among 0 .. sz-1 of heap that hold an entry for word w.
SlotsOf(heap, sz, w) == {i \in 0 .. sz - 1 : heap[i].word = w}

\* What one ingest of token t does to t and to the other tokens.
IngestEffect(t) ==
    LET n == TerminalNode(nodes, t)
        m == TerminalNode(nodes', t)
        wasLeaf == n # NULL /\ nodes[n].isLeaf
        before == SlotsOf(frequencyHeap, size, t)
        after == SlotsOf(frequencyHeap', size', t)
    IN /\ m # NULL
       /\ nodes'[m].isLeaf
       /\ Cardinality(after) = 1
       /\ IF wasLeaf
          THEN /\ m = n
               /\ nodes'[m].frequency = nodes[n].frequency + 1
               /\ Cardinality(before) = 1
               /\ \A i \in before, j \in after :
                      frequencyHeap'[j].frequency = frequencyHeap[i].frequency + 1
               /\ size' = size
               /\ uniqueOccurrences' = uniqueOccurrences
          ELSE /\ nodes'[m].frequency = 1
               /\ before = {}
               /\ \A j \in after : frequencyHeap'[j].frequency = 1
               /\ size' = size + 1
               /\ uniqueOccurrences' = uniqueOccurrences + 1
       /\ \A k \in 1 .. Len(firstSeen) :
              LET u == firstSeen[k]
                  un == TerminalNode(nodes, u)
              IN u # t =>
                  /\ TerminalNode(nodes', u) = un
                  /\ nodes'[un].frequency = nodes[un].frequency
                  /\ nodes'[un].isLeaf = nodes[un].isLeaf
                  /\ Cardinality(SlotsOf(frequencyHeap', size', u)) = 1
                  /\ \A i \in SlotsOf(frequencyHeap, size, u),
                        j \in SlotsOf(frequencyHeap', size', u) :
                         /\ frequencyHeap'[j].frequency = frequencyHeap[i].frequency
                         /\ frequencyHeap'[j].occurredAt = frequencyHeap[i].occurredAt

\* C12: one ingest of a valid non-empty token changes that token's count
\* only: a new token gets a leaf of frequency 1 and one new heap entry of
\* frequency 1, size and the distinct count growing by 1; a token seen
\* before has its trie frequency and its heap entry's frequency grow by 1,
\* size unchanged; every other token keeps its frequency and its
\* occurredAt.
C12_IngestChangesOneToken ==
    [][\A raw \in RawWords :
           (preproccess(raw) # <<>> /\ ReadWord(raw)) => IngestEffect(preproccess(raw))]_vars

\* Three distinct tokens were ingested, one of them three times.
C12_Witness ==
    /\ pc = "args"
    /\ Len(firstSeen) = 3
    /\ \E i \in 1 .. 3 : count[i] = 3

\* C13: while no entry has been extracted, every token ingested so far has
\* a terminal node whose heapId is a live slot holding that token's own
\* entry (its root is that node, its word the token), and the frequency of
\* that entry is the number of times the token was ingested: a repeated
\* token incremented its own entry.
C13_BackPointersWhileIngesting ==
    words = <<>> =>
        \A k \in 1 .. Len(firstSeen) :
            LET n == TerminalNode(nodes, firstSeen[k]) IN
            /\ n # NULL
            /\ nodes[n].heapId \in 0 .. size - 1
            /\ frequencyHeap[nodes[n].heapId].root = n
            /\ frequencyHeap[nodes[n].heapId].word = firstSeen[k]
            /\ frequencyHeap[nodes[n].heapId].frequency = count[k]

\* The token read last was repeated and its entry sifted up to the top past
\* tokens seen before it: slot 0 holds the third token, three times seen.
C13_Witness ==
    /\ words = <<>>
    /\ pc = "args"
    /\ Len(firstSeen) = 3
    /\ frequencyHeap[0].word = firstSeen[3]
    /\ count = <<1, 1, 3>>

\* The entries that hold a token: those in slots 0 .. size-1 and those
\* extracted while the heap still held one.
LiveSlots == 0 .. size - 1

Extracted == 1 .. (IF Len(words) <= Len(firstSeen) THEN Len(words) ELSE Len(firstSeen))

\* C14: occurredAt is given once, at a token's first ingest, counting the
\* distinct tokens seen before it: in every state, each entry in the heap
\* and each extracted entry carries the position of its token's first
\* occurrence among the distinct tokens (so no later ingest, sift or
\* extraction changed it), the ranks of the entries in the heap are pairwise
\* distinct, and one entry's rank is smaller than another's exactly when
\* its token was first seen earlier.
C14_RankIsFirstOccurrence ==
    /\ \A i \in LiveSlots :
           /\ Seen(frequencyHeap[i].word)
           /\ frequencyHeap[i].occurredAt = FirstOccurrence(frequencyHeap[i].word) - 1
    /\ \A j \in Extracted :
           /\ Seen(words[j].word)
           /\ words[j].occurredAt = FirstOccurrence(words[j].word) - 1
    /\ \A i, j \in LiveSlots :
           /\ i # j => frequencyHeap[i].occurredAt # frequencyHeap[j].occurredAt
           /\ frequencyHeap[i].occurredAt < frequencyHeap[j].occurredAt
                  <=> FirstOccurrence(frequencyHeap[i].word)
                          < FirstOccurrence(frequencyHeap[j].word)

\* The token seen second was ingested again, overtook the first in the heap
\* and was extracted; two entries remain in the heap.
C14_Witness ==
    /\ pc = "extract"
    /\ Len(words) = 1
    /\ size = 2
    /\ words[1].word = firstSeen[2]
    /\ words[1].occurredAt = 1
    /\ count[2] > count[1]

C16_SizeWithinCapacity ==
    [][/\ 0 <= size'
       /\ size' <= capacity'
       /\ \A raw \in RawWords :
              (preproccess(raw) # <<>> /\ ReadWord(raw)) =>
                  IF Seen(preproccess(raw))
                  THEN capacity' = capacity /\ size' = size
                  ELSE /\ capacity' = IF size = capacity THEN 2 * capacity ELSE capacity
                       /\ size < capacity'
                       /\ size' = size + 1
       /\ capacity' # capacity =>
              \E raw \in RawWords : ~Seen(preproccess(raw)) /\ ReadWord(raw)]_vars

\* floor(log2(n)) for n >= 1.
RECURSIVE Log2(_)
Log2(n) == IF n <= 1 THEN 0 ELSE 1 + Log2(n \div 2)

\* The slot an ingest of token t sifts up from: the slot of its entry, or
\* the first free slot for a new token.
SiftUpFrom(t) ==
    LET n == TerminalNode(nodes, t) IN
    IF n # NULL /\ nodes[n].isLeaf THEN nodes[n].heapId ELSE size

\* C17: sift-up and sift-down end after a number of swaps bounded by the
\* height of the tree: in every state of the ingestion, the ingest of any
\* token ends with at most floor(log2(i+1)) swaps, i being the slot it
\* sifts up from; in every state with n >= 1 entries in the heap,
\* extractMax ends with at most floor(log2(n)) swaps.
C17_SwapsBoundedByHeight ==
    /\ (pc = "args" /\ words = <<>>) =>
           \A raw \in RawWords :
               LET t == preproccess(raw) IN
               t # <<>> =>
                   insert(Cur, RootSlot, t, t, NULL).swaps <= Log2(SiftUpFrom(t) + 1)
    /\ size >= 1 =>
           \A g \in GarbageEntries : extractMax(Cur, g).S.swaps <= Log2(size)

\* Five entries are in the heap; the ingest of some token would take the
\* two swaps from slot 3 or 4 to the top, and extractMax would take two
\* swaps down to the last level.
C17_Witness ==
    /\ pc = "args"
    /\ size = 5
    /\ \E raw \in RawWords :
           LET t == preproccess(raw) IN
           /\ t # <<>>
           /\ SiftUpFrom(t) \in {3, 4}
           /\ insert(Cur, RootSlot, t, t, NULL).swaps = 2
    /\ \A g \in GarbageEntries : extractMax(Cur, g).S.swaps = 2

\* C18: a step that extracts from a heap of at least one entry that is in
\* heap order returns the entry of slot 0, which ranks above every other
\* entry of the heap, lowers size by exactly one, and leaves slots
\* 0 .. size-1 in heap order again.
C18_ExtractRestoresHeap ==
    [][(pc = "extract" /\ words' # words /\ size >= 1 /\ HeapOrdered) =>
           LET returned == words'[Len(words')] IN
           /\ returned = frequencyHeap[0]
           /\ \A i \in 1 .. size - 1 : RanksAbove(returned, frequencyHeap[i])
           /\ size' = size - 1
           /\ HeapOrdered']_vars

\* One of five entries of equal frequency was extracted and the last one
\* was sifted down two levels, the second time below a node whose only
\* child it now is: slot 1 has a left child (slot 3) and no right child.
C18_Witness ==
    /\ pc = "extract"
    /\ Len(words) = 1
    /\ size = 4
    /\ frequencyHeap[1].occurredAt = 3
    /\ frequencyHeap[3].occurredAt = 4

\* The number of slots among 0 .. sz-1 of heap that hold entry e.
Occurrences(heap, sz, e) == Cardinality({i \in 0 .. sz - 1 : heap[i] = e})

\* C19: a step that extracts from a heap of at least one entry leaves in
\* slots 0 .. size-1 the entries that were there before, less the one
\* returned: every entry of the new heap is an entry of the old one, and
\* each old entry occurs as often as before, the returned one once less.
\* Nothing comes in from a slot past the end of the heap.
C19_ExtractKeepsEntries ==
    [][(pc = "extract" /\ words' # words /\ size >= 1) =>
           /\ \A j \in 0 .. size' - 1 :
                  \E i \in 0 .. size - 1 : frequencyHeap'[j] = frequencyHeap[i]
           /\ \A i \in 0 .. size - 1 :
                  Occurrences(frequencyHeap', size', frequencyHeap[i]) =
                      Occurrences(frequencyHeap, size, frequencyHeap[i])
                          - (IF frequencyHeap[i] = frequencyHeap[0] THEN 1 ELSE 0)]_vars

\* Two entries were extracted from a heap of four; the slot past the end of
\* the heap still holds a copy of an entry that is in the heap.
C19_Witness ==
    /\ pc = "extract"
    /\ Len(words) = 2
    /\ size = 2
    /\ \E i \in LiveSlots : frequencyHeap[size] = frequencyHeap[i]

\* A token ingested so far ends at node n.
TokenEndsAt(n) == \E k \in 1 .. Len(firstSeen) : TerminalNode(nodes, firstSeen[k]) = n

\* C20: every node of the trie at which no token has ended, the root at the
\* start of the ingestion included, has isLeaf = false, frequency = 0 and
\* heapId = -1, and each of its child slots is NULL or a node that was
\* created; before the first ingest the trie is a root without children,
\* and size, totalWords and uniqueOccurrences are 0.
C20_FreshNodesInitialised ==
    /\ \A n \in 1 .. Len(nodes) :
           ~TokenEndsAt(n) =>
               /\ nodes[n].isLeaf = FALSE
               /\ nodes[n].frequency = 0
               /\ nodes[n].heapId = NoHeapId
               /\ \A i \in DOMAIN nodes[n].children :
                      nodes[n].children[i] \in 2 .. Len(nodes)
    /\ (pc = "args" /\ firstSeen = <<>>) =>
           /\ nodes = <<NewNode>>
           /\ size = 0
           /\ totalWords = 0
           /\ uniqueOccurrences = 0
====
